---- MODULE Spec2Model ----
(***************************************************************************)
(* A model of flask-gallery's app.py: the folder-name parser, the          *)
(* extension filter, the two-level directory scan, the album ordering, the *)
(* time-bounded catalog cache and the media route's path check.            *)
(*                                                                         *)
(* Text is modelled as a sequence of characters, each character a string.  *)
(* The three CJK date markers are written "nian" (U+5E74), "yue" (U+6708)  *)
(* and "ri" (U+65E5).                                                      *)
(***************************************************************************)
EXTENDS Integers, Sequences, FiniteSets, TLC

VARIABLES
    folder_name,    \* parser run: the raw folder name handed to parse_title_date
    written,        \* parser run: the components the name was written from
    parsed,         \* parser run: <<(title, date)>> once returned, << >> before the call
    request,        \* media run: the requested filename
    response,       \* media run: <<outcome of media()>>, << >> before the call
    tree,           \* the directory tree under IMAGES_ROOT
    scanned,        \* scan run: <<result of _scan_once()>>, << >> before the call
    clock,          \* time.time(), in seconds
    cache,          \* _cache: "at" and "data" (a reference to a list object)
    th,             \* each request thread's place in get_catalog() and its locals
    version,        \* how many times the tree has been changed (history)
    nextId,         \* the identity the next list object gets
    returned        \* <<the last value get_catalog() returned, with that call's locals>>

vars ==
    <<folder_name, written, parsed, request, response, tree, scanned,
      clock, cache, th, version, nextId, returned>>

pureVars == <<folder_name, written, parsed, request, response, scanned>>

catalogVars == <<clock, cache, th, version, nextId, returned>>

\* A regex group that did not take part in the match (None), which the code
\* tests by truth value: as the empty string
NoGroup == << >>

\* Optional[dt.date] None; dt.date itself has no year 0
NoDate == [year |-> 0, month |-> 0, day |-> 0]

(***************************************************************************)
(* Characters                                                              *)
(***************************************************************************)
NIAN == "nian"
YUE == "yue"
RI == "ri"

DigitChars == <<"0", "1", "2", "3", "4", "5", "6", "7", "8", "9">>

IsDigit(c) == \E i \in 1..10 : DigitChars[i] = c

DigitVal(c) == (CHOOSE i \in 1..10 : DigitChars[i] = c) - 1

\* \s of the re module, over the characters used here
IsSpace(c) == c = " "

\* [-/.] of the numeric patterns
IsIsoSep(c) == c \in {"-", "/", "."}

\* The printable ASCII characters in code point order, from U+0020 (the
\* quotation mark, the backslash and the backtick by name)
Ascii ==
    << " ", "!", "quote", "#", "$", "%", "&", "'", "(", ")", "*", "+",
       ",", "-", ".", "/", "0", "1", "2", "3", "4", "5", "6", "7",
       "8", "9", ":", ";", "<", "=", ">", "?", "@", "A", "B", "C",
       "D", "E", "F", "G", "H", "I", "J", "K", "L", "M", "N", "O",
       "P", "Q", "R", "S", "T", "U", "V", "W", "X", "Y", "Z", "[",
       "backslash", "]", "^", "_", "backtick", "a", "b", "c", "d", "e", "f", "g",
       "h", "i", "j", "k", "l", "m", "n", "o", "p", "q", "r", "s",
       "t", "u", "v", "w", "x", "y", "z", "{", "|", "}", "~" >>

\* The code point of a character (Python compares str by code point).
ord(c) ==
    CASE c = NIAN -> 24180
      [] c = RI -> 26085
      [] c = YUE -> 26376
      [] OTHER -> 31 + (CHOOSE i \in 1..Len(Ascii) : Ascii[i] = c)

\* str.lower(), character by character
lower_char(c) ==
    IF ord(c) >= 65 /\ ord(c) <= 90 THEN Ascii[ord(c) + 32 - 31] ELSE c

lower(s) == [i \in 1..Len(s) |-> lower_char(s[i])]

\* The character at 1-based position i, "" past either end.
CharAt(s, i) == IF i >= 1 /\ i <= Len(s) THEN s[i] ELSE ""

\* s[i..j] as Python slices it: empty when the range is empty.
Slice(s, i, j) == IF i > j THEN << >> ELSE SubSeq(s, i, j)

RECURSIVE LStripIn(_, _)
LStripIn(s, set) ==
    IF s # << >> /\ Head(s) \in set THEN LStripIn(Tail(s), set) ELSE s

RECURSIVE RStripIn(_, _)
RStripIn(s, set) ==
    IF s # << >> /\ s[Len(s)] \in set
    THEN RStripIn(SubSeq(s, 1, Len(s) - 1), set)
    ELSE s

\* str.strip(): whitespace off both ends
strip(s) == RStripIn(LStripIn(s, {" "}), {" "})

\* str.strip("-_ <middle dot><fullwidth comma>, "): the two non-ASCII separators
\* are outside the alphabet used here
strip_separators(s) ==
    RStripIn(LStripIn(s, {"-", "_", " ", ","}), {"-", "_", " ", ","})

\* int() of a non-empty digit string
RECURSIVE int(_)
int(s) ==
    IF Len(s) = 1 THEN DigitVal(s[1])
    ELSE 10 * int(SubSeq(s, 1, Len(s) - 1)) + DigitVal(s[Len(s)])

(***************************************************************************)
(* The regular expressions of _cn_patterns and _iso_patterns               *)
(*                                                                         *)
(* re.match is a backtracking search: of all the ways a pattern can match, *)
(* it returns the first in the order the quantifiers set (greedy: longest  *)
(* first; lazy: shortest first; an optional group: present first).         *)
(***************************************************************************)
DigitsAt(s, i, k) == \A j \in i..(i + k - 1) : IsDigit(CharAt(s, j))

RECURSIVE SkipSpaces(_, _)
SkipSpaces(s, i) == IF IsSpace(CharAt(s, i)) THEN SkipSpaces(s, i + 1) ELSE i

\* The ways \d{1,2} (month) and the optional day group can split the digits, in
\* the order the engine tries them. ml: month digits; dl: day digits, 0 for a
\* day group that is skipped.
Greedy ==
    << [ml |-> 2, dl |-> 2], [ml |-> 2, dl |-> 1], [ml |-> 2, dl |-> 0],
       [ml |-> 1, dl |-> 2], [ml |-> 1, dl |-> 1], [ml |-> 1, dl |-> 0] >>

NoCore == [ok |-> FALSE]

\* (?P<y>\d{4})[-/.](?P<m>\d{1,2})(?:[-/.](?P<d>\d{1,2}))? at position i, split as c
iso_core(s, i, c) ==
    LET mAt == i + 5
        dAt == mAt + c.ml + 1
    IN  IF /\ DigitsAt(s, i, 4)
           /\ IsIsoSep(CharAt(s, i + 4))
           /\ DigitsAt(s, mAt, c.ml)
           /\ c.dl > 0 => IsIsoSep(CharAt(s, mAt + c.ml)) /\ DigitsAt(s, dAt, c.dl)
        THEN [ok |-> TRUE,
              y |-> SubSeq(s, i, i + 3),
              m |-> SubSeq(s, mAt, mAt + c.ml - 1),
              d |-> IF c.dl > 0 THEN SubSeq(s, dAt, dAt + c.dl - 1) ELSE NoGroup,
              end |-> IF c.dl > 0 THEN dAt + c.dl ELSE mAt + c.ml]
        ELSE NoCore

\* (?P<y>\d{4})\s*nian\s*(?P<m>\d{1,2})\s*yue(?:\s*(?P<d>\d{1,2})\s*ri)? at
\* position i, split as c. Each \s* is followed by a character that is no
\* space, so only its longest match can succeed: the year marker is looked for
\* at nianAt, the month at mAt, the month marker at yueAt, the day at dAt and
\* the day marker at riAt.
cn_groups(s, i, c, nianAt, mAt, yueAt, dAt, riAt) ==
    IF /\ DigitsAt(s, i, 4)
       /\ CharAt(s, nianAt) = NIAN
       /\ DigitsAt(s, mAt, c.ml)
       /\ CharAt(s, yueAt) = YUE
       /\ c.dl > 0 => DigitsAt(s, dAt, c.dl) /\ CharAt(s, riAt) = RI
    THEN [ok |-> TRUE,
          y |-> SubSeq(s, i, i + 3),
          m |-> SubSeq(s, mAt, mAt + c.ml - 1),
          d |-> IF c.dl > 0 THEN SubSeq(s, dAt, dAt + c.dl - 1) ELSE NoGroup,
          end |-> IF c.dl > 0 THEN riAt + 1 ELSE yueAt + 1]
    ELSE NoCore

cn_from_day(s, i, c, nianAt, mAt, yueAt, dAt) ==
    cn_groups(s, i, c, nianAt, mAt, yueAt, dAt, SkipSpaces(s, dAt + c.dl))

cn_from_yue(s, i, c, nianAt, mAt, yueAt) ==
    cn_from_day(s, i, c, nianAt, mAt, yueAt, SkipSpaces(s, yueAt + 1))

cn_from_month(s, i, c, nianAt, mAt) ==
    cn_from_yue(s, i, c, nianAt, mAt, SkipSpaces(s, mAt + c.ml))

cn_from_nian(s, i, c, nianAt) ==
    cn_from_month(s, i, c, nianAt, SkipSpaces(s, nianAt + 1))

cn_core(s, i, c) == cn_from_nian(s, i, c, SkipSpaces(s, i + 4))

NoMatch == [matched |-> FALSE]

\* the date part of a pattern of the given notation ("cn" or "iso")
core(notation, s, i, c) ==
    IF notation = "cn" THEN cn_core(s, i, c) ELSE iso_core(s, i, c)

\* the date part r matched and ends at position end
core_to(r, end) == r.ok /\ r.end = end

\* ^(?P<title>.+?)\s*<core>$ : the ways to match, as <<length of the title,
\* length of the \s* after it, split of the core>>; the core must end the name.
title_first_tries(notation, s) ==
    { t \in (1..Len(s)) \X (0..Len(s)) \X (1..Len(Greedy)) :
        /\ t[1] + t[2] <= Len(s)
        /\ \A j \in (t[1] + 1)..(t[1] + t[2]) : IsSpace(s[j])
        /\ core_to(core(notation, s, t[1] + t[2] + 1, Greedy[t[3]]), Len(s) + 1) }

\* the order in which the engine tries them: the title is lazy (shortest
\* first), the \s* greedy (longest first), then the core in its own order
title_first_before(t, u) ==
    \/ t[1] < u[1]
    \/ t[1] = u[1] /\ t[2] > u[2]
    \/ t[1] = u[1] /\ t[2] = u[2] /\ t[3] <= u[3]

\* the match object of the way t, r being the date part
title_first_groups(s, t, r) ==
    [matched |-> TRUE, title |-> SubSeq(s, 1, t[1]),
     y |-> r.y, m |-> r.m, d |-> r.d, end |-> r.end]

title_first_match(notation, s, t) ==
    title_first_groups(s, t, core(notation, s, t[1] + t[2] + 1, Greedy[t[3]]))

title_first_of(notation, s, tries) ==
    IF tries = {} THEN NoMatch
    ELSE title_first_match(notation, s,
                           CHOOSE t \in tries : \A u \in tries : title_first_before(t, u))

title_first(notation, s) == title_first_of(notation, s, title_first_tries(notation, s))

\* the \s* of a date-first pattern: k spaces from position from, and at least
\* one character after them for the title
spaces_then_title(s, from, k) ==
    /\ from + k <= Len(s)
    /\ \A j \in from..(from + k - 1) : IsSpace(s[j])

\* the date part r matched, and k spaces and a title can follow it
core_then(r, s, k) == r.ok /\ spaces_then_title(s, r.end, k)

\* ^<core>\s*(?P<title>.+?)$ : the ways to match, as <<split of the core,
\* length of the \s* after it>>; the title runs to the end of the name.
date_first_tries(notation, s) ==
    { t \in (1..Len(Greedy)) \X (0..Len(s)) :
        core_then(core(notation, s, 1, Greedy[t[1]]), s, t[2]) }

\* the order in which the engine tries them: the core in its own order, then
\* the greedy \s*
date_first_before(t, u) ==
    \/ t[1] < u[1]
    \/ t[1] = u[1] /\ t[2] >= u[2]

date_first_groups(s, t, r) ==
    [matched |-> TRUE, title |-> SubSeq(s, r.end + t[2], Len(s)),
     y |-> r.y, m |-> r.m, d |-> r.d, end |-> Len(s) + 1]

date_first_match(notation, s, t) ==
    date_first_groups(s, t, core(notation, s, 1, Greedy[t[1]]))

date_first_of(notation, s, tries) ==
    IF tries = {} THEN NoMatch
    ELSE date_first_match(notation, s,
                          CHOOSE t \in tries : \A u \in tries : date_first_before(t, u))

date_first(notation, s) == date_first_of(notation, s, date_first_tries(notation, s))

_cn_patterns ==
    << [notation |-> "cn", layout |-> "title_first"],
       [notation |-> "cn", layout |-> "date_first"] >>

_iso_patterns ==
    << [notation |-> "iso", layout |-> "title_first"],
       [notation |-> "iso", layout |-> "date_first"] >>

\* pat.match(name)
match(pat, name) ==
    IF pat.layout = "title_first" THEN title_first(pat.notation, name)
    ELSE date_first(pat.notation, name)

\* pat.sub("", name) for a pattern that matched: the matched text is removed
sub_empty(m, name) == Slice(name, m.end, Len(name))

(***************************************************************************)
(* _to_date and parse_title_date                                           *)
(***************************************************************************)
IsLeap(year) == year % 4 = 0 /\ (year % 100 # 0 \/ year % 400 = 0)

DaysInMonth(year, month) ==
    CASE month \in {1, 3, 5, 7, 8, 10, 12} -> 31
      [] month \in {4, 6, 9, 11} -> 30
      [] month = 2 -> IF IsLeap(year) THEN 29 ELSE 28

\* dt.date(year, month, day) raises ValueError outside these ranges
date_ok(year, month, day) ==
    /\ year >= 1 /\ year <= 9999
    /\ month >= 1 /\ month <= 12
    /\ day >= 1 /\ day <= DaysInMonth(year, month)

_to_date(y, m, d) ==
    LET year == int(y)
        month == int(m)
        day == IF d # NoGroup THEN int(d) ELSE 1
    IN  IF date_ok(year, month, day)
        THEN [year |-> year, month |-> month, day |-> day]
        ELSE NoDate

\* lines 92-98: what the loop returns for the match m of a pattern, title
\* being m's title stripped, rest the name without the matched text stripped
\* of separators, and date the date of m's groups
matched_result(name, title, rest, date) ==
    [title |-> IF title # << >> THEN title
               ELSE IF rest # << >> THEN rest ELSE name,
     date |-> date]

result_of(m, name) ==
    matched_result(name, strip(m.title), strip_separators(sub_empty(m, name)),
                   _to_date(m.y, m.m, m.d))

\* the least of a set of places in the list, 0 for none
first_of(hits) == IF hits = {} THEN 0 ELSE CHOOSE i \in hits : \A j \in hits : i <= j

\* first_match with a match whose date is invalid passed over for the next
\* pattern
first_match_with_date(ms) ==
    first_of({i \in 1..Len(ms) : ms[i].matched /\ _to_date(ms[i].y, ms[i].m, ms[i].d) # NoDate})

\* lines 89-91: the loop stops at the first pattern that matches; its place
\* in the list, 0 when no pattern matches. ms[i] is the i-th pattern's match.
first_match(ms) == first_of({i \in 1..Len(ms) : ms[i].matched})

\* lines 89-99 for the stripped name, the loop having stopped at pattern i
parse_name(name, ms, i) ==
    IF i = 0 THEN [title |-> name, date |-> NoDate] ELSE result_of(ms[i], name)

\* the loop and the fallback for the stripped name and the patterns' matches
parse_matches(name, ms) == parse_name(name, ms, first_match(ms))

\* the patterns in the order of line 89, each matched against the name
matches(pats, name) == [i \in 1..Len(pats) |-> match(pats[i], name)]

parse_stripped(name) == parse_matches(name, matches(_cn_patterns \o _iso_patterns, name))

parse_title_date(raw) == parse_stripped(strip(raw))

(***************************************************************************)
(* allowed_image and Path.suffix                                           *)
(***************************************************************************)
JPG == <<".", "j", "p", "g">>
JPEG == <<".", "j", "p", "e", "g">>
PNG == <<".", "p", "n", "g">>
WEBP == <<".", "w", "e", "b", "p">>
GIF == <<".", "g", "i", "f">>
BMP == <<".", "b", "m", "p">>

ALLOWED_EXTS == {JPG, JPEG, PNG, WEBP, GIF, BMP}

\* PurePath.suffix: the text from the last dot of the final component, empty
\* when the dot is the first or the last character or there is none
suffix(name) ==
    LET dots == {i \in 1..Len(name) : name[i] = "."}
        last == CHOOSE i \in dots : \A j \in dots : j <= i
    IN  IF dots = {} \/ last = 1 \/ last = Len(name) THEN << >>
        ELSE SubSeq(name, last, Len(name))

(***************************************************************************)
(* The media route: (IMAGES_ROOT / filename).resolve(), checked against    *)
(* IMAGES_ROOT. A path is the sequence of its components from "/".         *)
(***************************************************************************)
DOTDOT == <<".", ".">>
APP == <<"a", "p", "p">>
IMAGES == <<"i", "m", "g">>
SegC == <<"c">>
SegAl == <<"a", "l">>
SegOut == <<"o", "u", "t">>
SegIn == <<"i", "n">>
FileP == <<"p", ".", "j", "p", "g">>
FileQ == <<"Q", ".", "P", "N", "G">>
FileN == <<"n", ".", "t", "x", "t">>
FileS == <<"s", ".", "j", "p", "g">>

BASE_DIR == <<APP>>

IMAGES_ROOT == BASE_DIR \o <<IMAGES>>

\* The file system the media route runs on: directories, regular files, and
\* symbolic links with their (absolute) targets.
DiskDirs ==
    { << >>, BASE_DIR, IMAGES_ROOT, IMAGES_ROOT \o <<SegC>>,
      IMAGES_ROOT \o <<SegC, SegAl>> }

DiskFiles ==
    { IMAGES_ROOT \o <<SegC, SegAl, FileP>>,
      IMAGES_ROOT \o <<SegC, SegAl, FileQ>>,
      IMAGES_ROOT \o <<SegC, SegAl, FileN>>,
      BASE_DIR \o <<FileS>> }

DiskLinks ==
    { <<IMAGES_ROOT \o <<SegC, SegOut>>, BASE_DIR>>,
      <<IMAGES_ROOT \o <<SegIn>>, IMAGES_ROOT \o <<SegC, SegAl>>>> }

IsLink(p) == \E l \in DiskLinks : l[1] = p

LinkTarget(p) == (CHOOSE l \in DiskLinks : l[1] = p)[2]

\* IMAGES_ROOT / filename: an absolute filename replaces the left operand
join(root, req) == IF req.absolute THEN req.parts ELSE root \o req.parts

\* Path.resolve(): left to right, ".." drops the last component resolved so
\* far, a symbolic link is replaced by its target, and a component that does
\* not exist is kept as written
RECURSIVE resolve_from(_, _)
resolve_from(done, rest) ==
    IF rest = << >> THEN done
    ELSE LET seg == Head(rest)
             new == Append(done, seg)
         IN  IF seg = DOTDOT
             THEN resolve_from(Slice(done, 1, Len(done) - 1), Tail(rest))
             ELSE IF IsLink(new)
             THEN resolve_from(<< >>, LinkTarget(new) \o Tail(rest))
             ELSE resolve_from(new, Tail(rest))

resolve(p) == resolve_from(<< >>, p)

exists(p) == p \in DiskDirs \cup DiskFiles

\* p.relative_to(root) succeeds: root's components begin p's
relative_to_unchecked(p, root) == TRUE

relative_to_ok(p, root) ==
    Len(p) >= Len(root) /\ SubSeq(p, 1, Len(root)) = root

NotFound == [status |-> 404, directory |-> << >>, rel |-> << >>]

media(filename) ==
    LET p == resolve(join(IMAGES_ROOT, filename))
        name == IF p = << >> THEN << >> ELSE p[Len(p)]
    IN  IF ~relative_to_ok(p, IMAGES_ROOT) THEN NotFound
        ELSE IF lower(suffix(name)) \notin ALLOWED_EXTS \/ ~exists(p) THEN NotFound
        ELSE [status |-> 200, directory |-> IMAGES_ROOT,
              rel |-> Slice(p, Len(IMAGES_ROOT) + 1, Len(p))]

(***************************************************************************)
(* The directory tree, Album, Category and _scan_once                      *)
(*                                                                         *)
(* tree.exists: IMAGES_ROOT exists. tree.entries: the entries below it,    *)
(* each with its path from IMAGES_ROOT (a sequence of names) and whether   *)
(* it is a directory.                                                      *)
(***************************************************************************)
Dir(p) == [path |-> p, isdir |-> TRUE]

File(p) == [path |-> p, isdir |-> FALSE]

\* Path.iterdir()
iterdir(t, dir) ==
    {e \in t.entries : Len(e.path) = Len(dir) + 1 /\ SubSeq(e.path, 1, Len(dir)) = dir}

name_of(e) == e.path[Len(e.path)]

\* the directory p is there to be listed
is_dir(t, p) == t.exists /\ (p = << >> \/ Dir(p) \in t.entries)

allowed_image(e) == ~e.isdir /\ lower(suffix(name_of(e))) \in ALLOWED_EXTS

\* str < str: by code point, a proper prefix first
str_lt(a, b) ==
    \E k \in 1..(Len(b)) :
        /\ \A i \in 1..(k - 1) : i <= Len(a) /\ a[i] = b[i]
        /\ k > Len(a) \/ (k <= Len(a) /\ ord(a[k]) < ord(b[k]))

\* sorted() of a set of distinct names
RECURSIVE sorted(_)
sorted(names) ==
    IF names = {} THEN << >>
    ELSE LET first == CHOOSE x \in names : \A y \in names \ {x} : str_lt(x, y)
         IN  <<first>> \o sorted(names \ {first})

date_lt(a, b) ==
    \/ a.year < b.year
    \/ a.year = b.year /\ a.month < b.month
    \/ a.year = b.year /\ a.month = b.month /\ a.day < b.day

\* the sort key of line 134: (a.date is not None, a.date or dt.date(1, 1, 1), a.title)
album_key(a) ==
    [dated |-> a.date # NoDate,
     date |-> IF a.date # NoDate THEN a.date ELSE [year |-> 1, month |-> 1, day |-> 1],
     title |-> a.title]

\* tuple < tuple, False < True
key_lt(k, l) ==
    \/ ~k.dated /\ l.dated
    \/ k.dated = l.dated /\ date_lt(k.date, l.date)
    \/ k.dated = l.dated /\ k.date = l.date /\ str_lt(k.title, l.title)

\* The place list.sort gives an element, from the elements that sort before
\* it and the elements of equal key that stand before it: sorting is stable,
\* also with reverse=True, so elements of equal key keep their order.
PlaceBy(before, same) == 1 + Cardinality(before) + Cardinality(same)

\* albums.sort(key=..., reverse=False): the reverse flag forgotten
sort_albums_ascending(albums) ==
    LET n == Len(albums)
        before(i) == {j \in 1..n : key_lt(album_key(albums[j]), album_key(albums[i]))}
        same(i) == {j \in 1..(i - 1) : album_key(albums[j]) = album_key(albums[i])}
    IN  [p \in 1..n |-> albums[CHOOSE i \in 1..n : PlaceBy(before(i), same(i)) = p]]

\* albums.sort(key=..., reverse=True)
sort_albums(albums) ==
    LET n == Len(albums)
        before(i) == {j \in 1..n : key_lt(album_key(albums[i]), album_key(albums[j]))}
        same(i) == {j \in 1..(i - 1) : album_key(albums[j]) = album_key(albums[i])}
    IN  [p \in 1..n |-> albums[CHOOSE i \in 1..n : PlaceBy(before(i), same(i)) = p]]

\* categories.sort(key=lambda c: c.name)
sort_categories(categories) ==
    LET n == Len(categories)
        before(i) == {j \in 1..n : str_lt(categories[j].name, categories[i].name)}
        same(i) == {j \in 1..(i - 1) : categories[j].name = categories[i].name}
    IN  [p \in 1..n |-> categories[CHOOSE i \in 1..n : PlaceBy(before(i), same(i)) = p]]

\* lines 119 and 122-131: the Album of an album directory
Album(cat, folder, imgs, td) ==
    [category |-> cat, folder |-> folder, title |-> td.title, date |-> td.date,
     rel_dir |-> cat \o <<"/">> \o folder, images |-> imgs]

\* line 119: the sorted names of the entries that allowed_image accepts
images_in(t, cat, folder) ==
    sorted({name_of(f) : f \in {e \in iterdir(t, <<cat, folder>>) : allowed_image(e)}})

\* add_album without lines 120-121: an album without images is kept
add_album_keep_empty(albums, album) == Append(albums, album)

\* lines 120-121 and 124: an album without images is passed over
add_album(albums, album) ==
    IF album.images = << >> THEN albums ELSE Append(albums, album)

\* One turn of the loop over album directories (lines 118-131): the albums
\* collected so far, with the Album of album_dir unless it holds no image.
scan_album(t, cat, folder, albums) ==
    add_album(albums, Album(cat, folder, images_in(t, cat, folder), parse_title_date(folder)))

RECURSIVE scan_albums(_, _, _, _)
scan_albums(t, cat, folders, albums) ==
    IF folders = << >> THEN albums
    ELSE scan_albums(t, cat, Tail(folders), scan_album(t, cat, Head(folders), albums))

subdirs(t, dir) == sorted({name_of(e) : e \in {x \in iterdir(t, dir) : x.isdir}})

\* lines 135-136: a category without albums is passed over
add_category(categories, cat, albums) ==
    IF albums = << >> THEN categories
    ELSE Append(categories, [name |-> cat, rel_dir |-> cat, albums |-> albums])

\* One turn of the loop over category directories (lines 116-136): the
\* categories collected so far, with the Category of cat unless it has no album.
scan_category(t, cat, categories) ==
    add_category(categories, cat, sort_albums(scan_albums(t, cat, subdirs(t, <<cat>>), << >>)))

RECURSIVE scan_categories(_, _, _)
scan_categories(t, cats, categories) ==
    IF cats = << >> THEN categories
    ELSE scan_categories(t, Tail(cats), scan_category(t, Head(cats), categories))

\* _scan_once() on a tree that does not change while it runs
_scan_once(t) ==
    IF ~t.exists THEN << >>
    ELSE sort_categories(scan_categories(t, subdirs(t, << >>), << >>))

(***************************************************************************)
(* _cache and get_catalog                                                  *)
(*                                                                         *)
(* A list object is [id, cats] with, as history, the time and the tree     *)
(* version at which the scan that built it began and whether _scan_once    *)
(* has returned it. _cache["data"] starts as the empty list made on line   *)
(* 107.                                                                    *)
(***************************************************************************)
CACHE_TTL_SECONDS == 5

\* The runs are bounded: the clock stops at MaxTime, at most MaxScans list
\* objects are made, and the tree changes at most MaxChanges times
MaxTime == 12

MaxScans == 2

MaxChanges == 1

Threads == {"t1", "t2"}

InitialList == [id |-> 0, cats |-> << >>, started |-> 0, tree_version |-> -1, complete |-> TRUE]

NoList == [id |-> -1, cats |-> << >>, started |-> 0, tree_version |-> -1, complete |-> FALSE]

\* a thread outside get_catalog(); inside it, pc is the line it is about to
\* run, now is the local of line 144, seen_at the _cache["at"] it read on
\* line 145, obj the list its _scan_once() is building and todo the category
\* directories that scan has still to visit
Idle ==
    [pc |-> "idle", now |-> 0, seen_at |-> 0, todo |-> << >>, obj |-> NoList,
     scanned |-> FALSE]

\* the state of the catalog variables in the runs that do not use them
NoCatalogRun ==
    /\ clock = 0
    /\ cache = [at |-> 0, data |-> InitialList]
    /\ th = [t \in Threads |-> Idle]
    /\ version = 0
    /\ nextId = 1
    /\ returned = << >>

\* now - _cache["at"] > CACHE_TTL_SECONDS with the operands exchanged
is_stale_swapped(now, at) == at - now > CACHE_TTL_SECONDS

\* now - _cache["at"] > CACHE_TTL_SECONDS
is_stale(now, at) == now - at > CACHE_TTL_SECONDS

\* get_catalog() is entered; line 144: now = time.time()
Call(t) ==
    /\ th[t].pc = "idle"
    /\ th' = [th EXCEPT ![t] = [Idle EXCEPT !.pc = "check_at", !.now = clock]]
    /\ UNCHANGED <<tree, clock, cache, version, nextId, returned>>
    /\ UNCHANGED pureVars

\* line 145, left operand of "or"
CheckAt(t) ==
    /\ th[t].pc = "check_at"
    /\ th' = [th EXCEPT ![t].seen_at = cache.at,
                        ![t].pc = IF is_stale(th[t].now, cache.at)
                                  THEN "scan" ELSE "check_data"]
    /\ UNCHANGED <<tree, clock, cache, version, nextId, returned>>
    /\ UNCHANGED pureVars

\* line 145, right operand: not _cache["data"]
CheckData(t) ==
    /\ th[t].pc = "check_data"
    /\ th' = [th EXCEPT ![t].pc = IF cache.data.cats = << >> THEN "scan" ELSE "return"]
    /\ UNCHANGED <<tree, clock, cache, version, nextId, returned>>
    /\ UNCHANGED pureVars

\* _scan_once() is entered (lines 111-116): a missing root returns a new
\* empty list at once, else the category directories are listed and sorted
ScanBegin(t) ==
    /\ th[t].pc = "scan"
    /\ nextId <= MaxScans
    /\ LET new == [id |-> nextId, cats |-> << >>, started |-> clock,
                   tree_version |-> version, complete |-> ~tree.exists]
       IN  th' = [th EXCEPT ![t].obj = new,
                            ![t].scanned = TRUE,
                            ![t].todo = IF tree.exists THEN subdirs(tree, << >>) ELSE << >>,
                            ![t].pc = IF tree.exists THEN "scanning" ELSE "store_data"]
    /\ nextId' = nextId + 1
    /\ UNCHANGED <<tree, clock, cache, version, returned>>
    /\ UNCHANGED pureVars

\* ScanStep that builds the catalog in the shared list
ScanStepInPlace(t) ==
    /\ th[t].pc = "scanning"
    /\ th[t].todo # << >>
    /\ is_dir(tree, <<Head(th[t].todo)>>)
    /\ th' = [th EXCEPT ![t].obj.cats = scan_category(tree, Head(th[t].todo), th[t].obj.cats),
                        ![t].todo = Tail(th[t].todo)]
    /\ cache' = [cache EXCEPT !.data = th'[t].obj]
    /\ UNCHANGED <<tree, clock, version, nextId, returned>>
    /\ UNCHANGED pureVars

\* one turn of the loop over the category directories (lines 116-136), on
\* the local list
ScanStep(t) ==
    /\ th[t].pc = "scanning"
    /\ th[t].todo # << >>
    /\ is_dir(tree, <<Head(th[t].todo)>>)
    /\ th' = [th EXCEPT ![t].obj.cats = scan_category(tree, Head(th[t].todo), th[t].obj.cats),
                        ![t].todo = Tail(th[t].todo)]
    /\ UNCHANGED <<tree, clock, cache, version, nextId, returned>>
    /\ UNCHANGED pureVars

\* cat_dir.iterdir() on a directory that has gone since it was listed raises
\* FileNotFoundError, which ends the call without a return value
ScanFail(t) ==
    /\ th[t].pc = "scanning"
    /\ th[t].todo # << >>
    /\ ~is_dir(tree, <<Head(th[t].todo)>>)
    /\ th' = [th EXCEPT ![t] = Idle]
    /\ UNCHANGED <<tree, clock, cache, version, nextId, returned>>
    /\ UNCHANGED pureVars

\* lines 139-140: the categories are sorted and the list returned
ScanEnd(t) ==
    /\ th[t].pc = "scanning"
    /\ th[t].todo = << >>
    /\ th' = [th EXCEPT ![t].obj.cats = sort_categories(th[t].obj.cats),
                        ![t].obj.complete = TRUE,
                        ![t].pc = "store_data"]
    /\ UNCHANGED <<tree, clock, cache, version, nextId, returned>>
    /\ UNCHANGED pureVars

\* line 146: _cache["data"] = <the list _scan_once returned>
StoreData(t) ==
    /\ th[t].pc = "store_data"
    /\ cache' = [cache EXCEPT !.data = th[t].obj]
    /\ th' = [th EXCEPT ![t].pc = "store_at", ![t].obj = NoList]
    /\ UNCHANGED <<tree, clock, version, nextId, returned>>
    /\ UNCHANGED pureVars

\* line 147: _cache["at"] = now
StoreAt(t) ==
    /\ th[t].pc = "store_at"
    /\ cache' = [cache EXCEPT !.at = th[t].now]
    /\ th' = [th EXCEPT ![t].pc = "return"]
    /\ UNCHANGED <<tree, clock, version, nextId, returned>>
    /\ UNCHANGED pureVars

\* line 148: return _cache["data"]; the caller has the list, and the call's
\* locals are gone
Return(t) ==
    /\ th[t].pc = "return"
    /\ returned' = <<[value |-> cache.data, now |-> th[t].now,
                      seen_at |-> th[t].seen_at, scanned |-> th[t].scanned]>>
    /\ th' = [th EXCEPT ![t] = Idle]
    /\ UNCHANGED <<tree, clock, cache, version, nextId>>
    /\ UNCHANGED pureVars

get_catalog(t) ==
    \/ Call(t)
    \/ CheckAt(t)
    \/ CheckData(t)
    \/ ScanBegin(t)
    \/ ScanStep(t)
    \/ ScanFail(t)
    \/ ScanEnd(t)
    \/ StoreData(t)
    \/ StoreAt(t)
    \/ Return(t)

(***************************************************************************)
(* Parser runs: a folder name written from known components                *)
(***************************************************************************)
Y2025 == <<"2", "0", "2", "5">>
Y2024 == <<"2", "0", "2", "4">>

WrittenYears == {Y2025, Y2024}

WrittenMonths == {<<"8">>, <<"0", "8">>, <<"1", "3">>, <<"0", "2">>}

WrittenDays == {NoGroup, <<"2", "4">>, <<"1">>, <<"3", "0">>, <<"3", "2">>}

Notations == {"cn", "cn_spaced", "-", "/", "."}

WrittenTitles == {<<"a">>, <<"Z", " ", "b">>}

Gaps == {<< >>, <<" ">>}

\* The date as the notation writes it
DateText(nt, y, m, d) ==
    CASE nt = "cn" ->
            y \o <<NIAN>> \o m \o <<YUE>> \o (IF d = NoGroup THEN << >> ELSE d \o <<RI>>)
      [] nt = "cn_spaced" ->
            y \o <<" ", NIAN, " ">> \o m \o <<" ", YUE>>
              \o (IF d = NoGroup THEN << >> ELSE <<" ">> \o d \o <<" ", RI>>)
      [] OTHER ->
            y \o <<nt>> \o m \o (IF d = NoGroup THEN << >> ELSE <<nt>> \o d)

Render(w) ==
    LET date == DateText(w.notation, w.y, w.m, w.d)
    IN  CASE w.layout = "date_only" -> date
          [] w.layout = "title_date" -> w.title \o w.gap \o date
          [] w.layout = "date_title" -> date \o w.gap \o w.title

Writings ==
    [layout : {"title_date", "date_title"}, notation : Notations,
     y : WrittenYears, m : WrittenMonths, d : WrittenDays,
     title : WrittenTitles, gap : Gaps]
    \cup
    [layout : {"date_only"}, notation : Notations,
     y : WrittenYears, m : WrittenMonths, d : WrittenDays,
     title : {<< >>}, gap : {<< >>}]

\* Names outside the scheme: no date, padding, two dates in one name
OtherNames ==
    { <<"a">>, <<"Z">>, <<" ", "a", " ">>, Y2025, Y2025 \o <<"-">>,
      <<" ">> \o Y2025 \o <<"-", "8", " ", "a", " ">>,
      <<"a", " ">> \o Y2025 \o <<NIAN, "8", YUE, "2", "4">>,
      Y2025 \o <<"-", "1", " ">> \o Y2025 \o <<"-", "1", "3">>,
      Y2025 \o <<"-", "1">> \o Y2025 \o <<"-", "1", "3">>,
      Y2025 \o <<"-", "0", "1", " ", "x">> \o Y2025 \o <<NIAN, "1", "3", YUE>>,
      Y2025 \o <<"-", "1", "3", " ">> \o Y2024 \o <<"-", "0", "2", "-", "2", "9">>,
      Y2025 \o <<"-", "0", "8", "-", "2", "4", "-">>,
      <<"0", "0", "0", "0", "-", "0", "1", " ", "a">> }

Unwritten ==
    [layout |-> "other", notation |-> "", y |-> << >>, m |-> << >>, d |-> << >>,
     title |-> << >>, gap |-> << >>]

NoRequest == [absolute |-> FALSE, parts |-> << >>]

NoTree == [exists |-> FALSE, entries |-> {}]

InitParse ==
    /\ \/ \E w \in Writings : written = w /\ folder_name = Render(w)
       \/ \E n \in OtherNames : written = Unwritten /\ folder_name = n
    /\ parsed = << >>
    /\ request = NoRequest
    /\ response = << >>
    /\ tree = NoTree
    /\ scanned = << >>
    /\ NoCatalogRun

\* One call of parse_title_date
Parse ==
    /\ parsed = << >>
    /\ parsed' = <<parse_title_date(folder_name)>>
    /\ UNCHANGED <<folder_name, written, request, response, tree, scanned>>
    /\ UNCHANGED catalogVars

NextParse == Parse

SpecParse == InitParse /\ [][NextParse]_vars

(***************************************************************************)
(* Media runs: one request for /media/<path:filename>                      *)
(***************************************************************************)
MaxParts == 3

RequestParts == {DOTDOT, SegC, SegAl, SegOut, SegIn, FileP, FileQ, FileN, FileS, APP, IMAGES}

RECURSIVE SeqsUpTo(_, _)
SeqsUpTo(S, n) ==
    IF n = 0 THEN {<< >>}
    ELSE LET shorter == SeqsUpTo(S, n - 1)
         IN  shorter \cup {Append(q, x) : q \in {r \in shorter : Len(r) = n - 1}, x \in S}

InitMedia ==
    /\ request \in [absolute : BOOLEAN, parts : SeqsUpTo(RequestParts, MaxParts)]
    /\ response = << >>
    /\ folder_name = << >>
    /\ written = Unwritten
    /\ parsed = << >>
    /\ tree = NoTree
    /\ scanned = << >>
    /\ NoCatalogRun

\* One call of media()
Media ==
    /\ response = << >>
    /\ response' = <<media(request)>>
    /\ UNCHANGED <<folder_name, written, parsed, request, tree, scanned>>
    /\ UNCHANGED catalogVars

NextMedia == Media

SpecMedia == InitMedia /\ [][NextMedia]_vars
(***************************************************************************)
(* Scan runs: one _scan_once() over a tree of two categories               *)
(***************************************************************************)
CatOne == <<"c", "1">>
CatTwo == <<"c", "2">>

FolderZ == <<"Z">>
FolderA24 == <<"a", " ", "2", "0", "2", "5", "-", "0", "8", "-", "2", "4">>
FolderB01 == <<"2", "0", "2", "5", "-", "0", "8", " ", "b">>
FolderB24 == <<"b", " ", "2", "0", "2", "5", ".", "0", "8", ".", "2", "4">>
FolderA24Dot == <<"a", " ", "2", "0", "2", "5", ".", "8", ".", "2", "4">>
FolderY13 == <<"Y", " ", "2", "0", "2", "5", "-", "1", "3">>

AlbumFolders == {FolderZ, FolderA24, FolderB01, FolderB24, FolderA24Dot, FolderY13}

ImageB == <<"b", ".", "j", "p", "g">>
ImageQ == <<"Q", ".", "P", "N", "G">>
TextN == <<"n", ".", "t", "x", "t">>
DirD == <<"d", ".", "j", "p", "g">>
DotJpg == <<".", "j", "p", "g">>

\* What an album directory holds: "absent": there is no such directory;
\* "no_image": a text file, a file named ".jpg" and a subdirectory named like
\* an image; "images": two images and a text file
AlbumEntries(cat, folder, holds) ==
    CASE holds = "absent" -> {}
      [] holds = "no_image" ->
            { Dir(<<cat, folder>>), File(<<cat, folder, TextN>>),
              File(<<cat, folder, DotJpg>>), Dir(<<cat, folder, DirD>>) }
      [] holds = "images" ->
            { Dir(<<cat, folder>>), File(<<cat, folder, ImageB>>),
              File(<<cat, folder, ImageQ>>), File(<<cat, folder, TextN>>) }

\* The second category: absent, with one album that holds no image, or with
\* one album that holds images; a loose file beside the albums is no album
SecondCategory(holds) ==
    IF holds = "absent" THEN {}
    ELSE {Dir(<<CatTwo>>), File(<<CatTwo, ImageB>>)} \cup AlbumEntries(CatTwo, FolderZ, holds)

ScanTrees ==
    { [exists |-> TRUE,
       entries |-> {Dir(<<CatOne>>), File(<<ImageB>>)}
                   \cup UNION {AlbumEntries(CatOne, f, holds[f]) : f \in AlbumFolders}
                   \cup SecondCategory(second)] :
        holds \in [AlbumFolders -> {"absent", "no_image", "images"}],
        second \in {"absent", "no_image", "images"} }
    \cup {NoTree, [exists |-> TRUE, entries |-> {}]}

InitScan ==
    /\ tree \in ScanTrees
    /\ scanned = << >>
    /\ folder_name = << >>
    /\ written = Unwritten
    /\ parsed = << >>
    /\ request = NoRequest
    /\ response = << >>
    /\ NoCatalogRun

\* One call of _scan_once()
Scan ==
    /\ scanned = << >>
    /\ scanned' = <<_scan_once(tree)>>
    /\ UNCHANGED <<folder_name, written, parsed, request, response, tree>>
    /\ UNCHANGED catalogVars

NextScan == Scan

SpecScan == InitScan /\ [][NextScan]_vars

(***************************************************************************)
(* Catalog runs: get_catalog() called over and over, by one thread or by   *)
(* two, while time passes and the tree changes                             *)
(***************************************************************************)
FolderE == <<"E">>

\* c1 holds album Z (an image and a text file) and album E (a text file
\* only); c2 holds album Z (an image)
CatalogTree ==
    [exists |-> TRUE,
     entries |-> { Dir(<<CatOne>>), Dir(<<CatOne, FolderZ>>),
                   File(<<CatOne, FolderZ, ImageB>>), File(<<CatOne, FolderZ, TextN>>),
                   Dir(<<CatOne, FolderE>>), File(<<CatOne, FolderE, TextN>>),
                   Dir(<<CatTwo>>), Dir(<<CatTwo, FolderZ>>),
                   File(<<CatTwo, FolderZ, ImageQ>>) }]

\* the file that is deleted while the program runs: the only image of c1
Removed == File(<<CatOne, FolderZ, ImageB>>)

InitCatalog ==
    /\ tree = CatalogTree
    /\ clock = CACHE_TTL_SECONDS + 1
    /\ cache = [at |-> 0, data |-> InitialList]
    /\ th = [t \in Threads |-> Idle]
    /\ version = 0
    /\ nextId = 1
    /\ returned = << >>
    /\ folder_name = << >>
    /\ written = Unwritten
    /\ parsed = << >>
    /\ request = NoRequest
    /\ response = << >>
    /\ scanned = << >>

\* time passes: a time-to-live, or a second more than that
Tick ==
    /\ \E d \in {CACHE_TTL_SECONDS, CACHE_TTL_SECONDS + 1} :
         /\ clock + d <= MaxTime
         /\ clock' = clock + d
    /\ UNCHANGED <<tree, cache, th, version, nextId, returned>>
    /\ UNCHANGED pureVars

\* an image file is deleted
RemoveFile ==
    /\ version < MaxChanges
    /\ tree.exists
    /\ Removed \in tree.entries
    /\ tree' = [tree EXCEPT !.entries = tree.entries \ {Removed}]
    /\ version' = version + 1
    /\ UNCHANGED <<clock, cache, th, nextId, returned>>
    /\ UNCHANGED pureVars

\* the images directory is moved away
RemoveRoot ==
    /\ version < MaxChanges
    /\ tree.exists
    /\ tree' = [tree EXCEPT !.exists = FALSE]
    /\ version' = version + 1
    /\ UNCHANGED <<clock, cache, th, nextId, returned>>
    /\ UNCHANGED pureVars

Environment == Tick \/ RemoveFile \/ RemoveRoot

NextSeq == Environment \/ get_catalog("t1")

SpecSeq == InitCatalog /\ [][NextSeq]_vars

NextConc == Environment \/ \E t \in Threads : get_catalog(t)

SpecConc == InitCatalog /\ [][NextConc]_vars

(***************************************************************************)
(* Properties of the parser                                                *)
(***************************************************************************)
PatternOrder == _cn_patterns \o _iso_patterns

Matching(name) == {i \in 1..Len(PatternOrder) : match(PatternOrder[i], name).matched}

FirstMatching(name) == CHOOSE i \in Matching(name) : \A j \in Matching(name) : i <= j

\* The calendar date a match's groups denote, when they denote one
GroupsValid(m) == date_ok(int(m.y), int(m.m), IF m.d = NoGroup THEN 1 ELSE int(m.d))

WrittenDate(w) ==
    [year |-> int(w.y), month |-> int(w.m), day |-> IF w.d = NoGroup THEN 1 ELSE int(w.d)]

WrittenValid(w) ==
    date_ok(WrittenDate(w).year, WrittenDate(w).month, WrittenDate(w).day)

\* C4: every folder name written in a supported date notation (either layout,
\* or the date alone) whose components are a calendar date parses to exactly
\* that year, month and day, the day being 1 when none is written.
C4_DateRecovered ==
    (parsed # << >> /\ written.layout # "other" /\ WrittenValid(written))
        => parsed[1].date = WrittenDate(written)

\* C9: a folder name that is a date alone parses to the whole name as the
\* title, together with the date written in it.
C9_DateOnlyKeepsName ==
    (parsed # << >> /\ written.layout = "date_only")
        => /\ parsed[1].title = strip(folder_name)
           /\ WrittenValid(written) => parsed[1].date = WrittenDate(written)

\* C8: when the first pattern (in the order long-form title-first, long-form
\* date-first, numeric title-first, numeric date-first) that matches the name
\* captures no calendar date, the result is that pattern's title capture with
\* no date, whatever the later patterns would match.
C8_NoFallThrough ==
    parsed # << >> =>
        LET name == strip(folder_name)
        IN  Matching(name) # {} =>
                LET m == match(PatternOrder[FirstMatching(name)], name)
                IN  ~GroupsValid(m) =>
                        parsed[1] = [title |-> strip(m.title), date |-> NoDate]

\* C8's case: the first matching pattern captures an invalid date and a later
\* pattern matches the same name with a valid one.
C8_Witness ==
    /\ parsed # << >>
    /\ LET name == strip(folder_name)
       IN  /\ Matching(name) # {}
           /\ ~GroupsValid(match(PatternOrder[FirstMatching(name)], name))
           /\ \E j \in Matching(name) :
                j > FirstMatching(name) /\ GroupsValid(match(PatternOrder[j], name))

(***************************************************************************)
(* Properties of the media route                                           *)
(***************************************************************************)
InsideRoot(p) == \E k \in 0..Len(p) : Slice(p, 1, k) = IMAGES_ROOT

Requested == resolve(join(IMAGES_ROOT, request))

\* C3: a media request either yields not-found or is served from the path it
\* resolves to, which lies inside the images root; a request that resolves
\* outside the root yields not-found.
C3_NoEscape ==
    response # << >> =>
        /\ response[1].status = 200 =>
              /\ response[1].directory \o response[1].rel = Requested
              /\ InsideRoot(response[1].directory \o response[1].rel)
        /\ ~InsideRoot(Requested) => response[1] = NotFound

\* C3's case: a request with a ".." component that resolves to an existing
\* image file outside the root, answered not-found.
C3_Witness ==
    /\ response # << >>
    /\ \E i \in 1..Len(request.parts) : request.parts[i] = DOTDOT
    /\ Requested \in DiskFiles
    /\ ~InsideRoot(Requested)
    /\ lower(suffix(Requested[Len(Requested)])) \in ALLOWED_EXTS
    /\ response[1] = NotFound

(***************************************************************************)
(* Properties of the scan                                                  *)
(***************************************************************************)
Dated(a) == a.date # NoDate

Later(d, e) ==
    d.year * 10000 + d.month * 100 + d.day > e.year * 10000 + e.month * 100 + e.day

\* the albums keep the order: dated before undated, later dates first, and
\* for one date (or none) the greater title first
AlbumsOrdered(albums) ==
    \A i, j \in 1..Len(albums) :
        i < j =>
            /\ Dated(albums[j]) => Dated(albums[i])
            /\ (Dated(albums[i]) /\ Dated(albums[j])) => ~Later(albums[j].date, albums[i].date)
            /\ albums[i].date = albums[j].date => ~str_lt(albums[i].title, albums[j].title)

\* C5: in every category of a scanned catalog every dated album precedes
\* every undated one, dated albums are in descending date order, and albums
\* of equal date (and the undated ones) are in descending title order.
C5_AlbumOrder ==
    scanned # << >> =>
        \A c \in 1..Len(scanned[1]) : AlbumsOrdered(scanned[1][c].albums)

\* C5's example: albums dated 2025-08-24 and 2025-08-01 and the undated "Z",
\* scanned into that order.
C5_Witness ==
    /\ scanned # << >>
    /\ \E c \in 1..Len(scanned[1]) :
         LET albums == scanned[1][c].albums
         IN  /\ Len(albums) = 3
             /\ albums[1].date = [year |-> 2025, month |-> 8, day |-> 24]
             /\ albums[2].date = [year |-> 2025, month |-> 8, day |-> 1]
             /\ albums[3].date = NoDate /\ albums[3].title = <<"Z">>

(***************************************************************************)
(* Properties of the cache                                                 *)
(***************************************************************************)
\* the categories are in ascending order of name
CategoriesOrdered(cats) ==
    \A i, j \in 1..Len(cats) : i < j => ~str_lt(cats[j].name, cats[i].name)

\* the list is what a _scan_once() run that has ended returned
Finished(o) ==
    /\ o.complete
    /\ CategoriesOrdered(o.cats)
    /\ \A c \in 1..Len(o.cats) : AlbumsOrdered(o.cats[c].albums)

\* the tree has not changed since the scan that built the list began
Current(o) == o.tree_version = version

\* C1: a call that returns no more than CACHE_TTL_SECONDS after the scan of
\* the call before it, the tree unchanged since that scan, has not scanned and
\* returns the very list the call before it returned, whatever the tree is.
C1_CacheHit ==
    [][\A t \in Threads :
         (/\ th[t].pc = "return" /\ th'[t].pc = "idle"
          /\ returned # << >>
          /\ returned[1].scanned
          /\ th[t].now - returned[1].now <= CACHE_TTL_SECONDS
          /\ Current(returned[1].value))
         => (~th[t].scanned /\ returned'[1].value.id = returned[1].value.id)]_vars

\* C2: the list in _cache["data"] and the list a call returned are each the
\* empty list of line 107 or the finished, ordered result of one _scan_once()
\* run; a list still being built is never the one in the cache.
C2_NoPartialCatalog ==
    /\ Finished(cache.data)
    /\ cache.data.id = 0 => cache.data.cats = << >>
    /\ returned # << >> => Finished(returned[1].value)
    /\ \A t \in Threads : th[t].pc = "scanning" => th[t].obj.id # cache.data.id

\* C2's case: a thread is half way through its scan, one category built and
\* one to go, while a scan begun after it has been stored and returned.
C2_Witness ==
    \E t \in Threads :
        /\ th[t].pc = "scanning"
        /\ th[t].obj.cats # << >>
        /\ th[t].todo # << >>
        /\ returned # << >>
        /\ returned[1].value.id > th[t].obj.id
        /\ cache.data = returned[1].value

\* the album directory holds a file of an allowed extension
HoldsImage(t, dir) ==
    \E e \in t.entries :
        /\ ~e.isdir
        /\ Len(e.path) = Len(dir) + 1
        /\ SubSeq(e.path, 1, Len(dir)) = dir
        /\ lower(suffix(e.path[Len(e.path)])) \in ALLOWED_EXTS

AlbumDirs(t, cat) == {d \in t.entries : d.isdir /\ Len(d.path) = 2 /\ d.path[1] = cat}

\* C6: in a returned catalog every category has an album and every album an
\* image; and, the tree unchanged since the scan began, an album directory
\* without an image of an allowed extension has no Album and a category
\* directory with no album directory that has one has no Category.
C6_NonEmpty ==
    returned # << >> =>
        LET o == returned[1].value
            cats == o.cats
        IN  /\ \A c \in 1..Len(cats) :
                  /\ cats[c].albums # << >>
                  /\ \A a \in 1..Len(cats[c].albums) : cats[c].albums[a].images # << >>
            /\ (Current(o) /\ tree.exists) =>
                  \A d \in tree.entries :
                      /\ (d.isdir /\ Len(d.path) = 2 /\ ~HoldsImage(tree, d.path)) =>
                            \A c \in 1..Len(cats) : \A a \in 1..Len(cats[c].albums) :
                                ~(/\ cats[c].albums[a].category = d.path[1]
                                  /\ cats[c].albums[a].folder = d.path[2])
                      /\ (/\ d.isdir /\ Len(d.path) = 1
                          /\ \A e \in AlbumDirs(tree, d.path[1]) : ~HoldsImage(tree, e.path)) =>
                            \A c \in 1..Len(cats) : cats[c].name # d.path[1]

\* C6's case: the only image of category c1 has been removed, c1 is left with
\* two album directories that hold a text file each, and the catalog scanned
\* from that tree and returned has category c2 alone.
C6_Witness ==
    /\ returned # << >>
    /\ Current(returned[1].value)
    /\ tree.exists
    /\ Removed \notin tree.entries
    /\ Cardinality(AlbumDirs(tree, CatOne)) = 2
    /\ Len(returned[1].value.cats) = 1
    /\ returned[1].value.cats[1].name = CatTwo

\* C7: with one thread, a call that found more than CACHE_TTL_SECONDS between
\* its time and the stored timestamp has scanned after it was entered, left
\* the finished result and its own time in the cache and returned that
\* result, which is the catalog of the tree as it is if the tree has not
\* changed since that scan began; and no call returns a list whose scan began
\* more than CACHE_TTL_SECONDS before the call.
C7_Expiry ==
    (th["t1"].pc = "idle" /\ th["t2"].pc = "idle" /\ returned # << >>) =>
        LET r == returned[1]
        IN  /\ r.now - r.seen_at > CACHE_TTL_SECONDS =>
                  /\ r.scanned
                  /\ r.value.started >= r.now
                  /\ r.value.complete
                  /\ cache.data = r.value
                  /\ cache.at = r.now
                  /\ Current(r.value) => r.value.cats = _scan_once(tree)
            /\ r.now - r.value.started <= CACHE_TTL_SECONDS

\* C7's case: a first call scanned and stored its time; the image of c1 was
\* removed; a call made more than CACHE_TTL_SECONDS after that time scanned
\* again and returned the second list, without category c1.
C7_Witness ==
    /\ th["t1"].pc = "idle"
    /\ returned # << >>
    /\ returned[1].seen_at > 0
    /\ returned[1].now - returned[1].seen_at > CACHE_TTL_SECONDS
    /\ returned[1].value.id = 2
    /\ Current(returned[1].value)
    /\ tree.exists
    /\ Removed \notin tree.entries
    /\ Len(returned[1].value.cats) = 1

\* C10: the stored timestamp is never later than the time at which the scan
\* that built the stored list began.
C10_TimestampNotLater == cache.at <= cache.data.started
====
